---- MODULE Spec2Model ----
(***************************************************************************)
(* Model of the Zyrex trampoline engine (src/src/Trampoline.c), x64 /      *)
(* Windows build.  The address space is scaled down: pages, allocation     *)
(* granularity and the reach of a relative jump are small numbers, the     *)
(* byte-level constants of the prologue relocation are the real ones.      *)
(***************************************************************************)
EXTENDS Integers, Sequences, FiniteSets, TLC

(* ----------------------------------------------------------------------- *)
(* Scaled platform (bounds of the model)                                   *)
(* ----------------------------------------------------------------------- *)

\* size of a page (scaled from 4096)
PageSize == 128

\* pages per allocation granule (scaled from 16)
PagesPerRegion == 2

\* highest allocation granule of the modelled address space; granule 0 lies
\* below the minimum application address, the highest one above the maximum
TopSlot == 5

\* reach of a relative jump (scaled from 2^31 - 1)
RANGEOF_RELATIVE_JUMP == 450

\* width in bits of a pointer (scaled from 64)
PtrBits == 16

\* modulus of pointer-sized unsigned arithmetic
PtrModulus == 2 ^ PtrBits

\* number of create calls of a run
MaxCreates == 3

\* number of free calls of a run
MaxFrees == 2

\* number of handles and of free calls of a short run
ShortCreates == 1

ShortFrees == 1

\* number of handles of a run through both entry points
ApiCreates == 2

\* number of handles and of free calls of a run that fills the pool
PoolCreates == 3

PoolFrees == 1

\* number of handles and of free calls of a run that stores map items behind
\* chunks
MapCreates == 2
MapFrees == 1

\* number of handles of a run on an operating system that may refuse
RefusingCreates == 2

(* ----------------------------------------------------------------------- *)
(* Program constants                                                       *)
(* ----------------------------------------------------------------------- *)

ZYDIS_MAX_INSTRUCTION_LENGTH == 15

ZYREX_SIZEOF_RELATIVE_JUMP == 5

ZYREX_SIZEOF_ABSOLUTE_JUMP == 6

ZYREX_TRAMPOLINE_MAX_CODE_SIZE ==
    ZYDIS_MAX_INSTRUCTION_LENGTH + ZYREX_SIZEOF_RELATIVE_JUMP - 1

ZYREX_TRAMPOLINE_MAX_CODE_SIZE_WITH_BACKJUMP ==
    ZYREX_TRAMPOLINE_MAX_CODE_SIZE + ZYREX_SIZEOF_ABSOLUTE_JUMP

ZYREX_TRAMPOLINE_MAX_INSTRUCTION_COUNT == ZYREX_SIZEOF_RELATIVE_JUMP

\* sizeof(ZyrexTrampolineChunk) on x64: is_used 1 (+7), callback_address 8,
\* callback_jump 6 (+2), backjump_address 8, trampoline 25, map 11 (+4)
SizeofChunk == 72

\* offsetof(ZyrexTrampolineChunk, trampoline) on x64
OffsetofTrampoline == 32

NULLVAL == 0

(* ----------------------------------------------------------------------- *)
(* Platform memory: VirtualQuery / VirtualAlloc / VirtualProtect           *)
(* ----------------------------------------------------------------------- *)

AllocationGranularity == PageSize * PagesPerRegion

NumPages == (TopSlot + 1) * PagesPerRegion

Pages == 0 .. (NumPages - 1)

AddressSpaceSize == NumPages * PageSize

lpMinimumApplicationAddress == AllocationGranularity

lpMaximumApplicationAddress == TopSlot * AllocationGranularity - 1

SlotBase(s) == s * AllocationGranularity

PageOf(a) == a \div PageSize

PagesOfSlot(s) == (s * PagesPerRegion) .. ((s + 1) * PagesPerRegion - 1)

\* pages that hold a byte of [a, a + n)
PagesOfRange(a, n) == { p \in Pages : p * PageSize < a + n /\ (p + 1) * PageSize > a }

\* what a page is: "free", "reserved", foreign "code" (PAGE_EXECUTE_READ),
\* foreign "noaccess" (committed, PAGE_NOACCESS), a trampoline region's page
\* with PAGE_EXECUTE_READ ("rx") or PAGE_EXECUTE_READWRITE ("rwx")
PageKinds == {"free", "reserved", "code", "noaccess", "rx", "rwx"}

PageState(k) ==
    IF k = "free" THEN "MEM_FREE"
    ELSE IF k = "reserved" THEN "MEM_RESERVE"
    ELSE "MEM_COMMIT"

\* Protect & read_mask
InReadMask(k) == k \in {"code", "rx", "rwx"}

RECURSIVE RunEnd(_, _)
\* first page after p that is not of the kind of page p
RunEnd(m, p) ==
    IF p + 1 > NumPages - 1 THEN p + 1
    ELSE IF m[p + 1] # m[p] THEN p + 1
    ELSE RunEnd(m, p + 1)

\* MEMORY_BASIC_INFORMATION of the block of pages that holds address a
VirtualQuery(m, a) ==
    IF a < 0 \/ a >= AddressSpaceSize
    THEN [ok |-> FALSE, BaseAddress |-> 0, RegionSize |-> 0, kind |-> "free"]
    ELSE [ok |-> TRUE,
          BaseAddress |-> PageOf(a) * PageSize,
          RegionSize |-> (RunEnd(m, PageOf(a)) - PageOf(a)) * PageSize,
          kind |-> m[PageOf(a)]]

\* unsigned pointer-sized value of x
WrapU(x) == x % PtrModulus

(* ----------------------------------------------------------------------- *)
(* ZyrexGetSizeOfReadableMemoryRegion                                      *)
(* ----------------------------------------------------------------------- *)

RECURSIVE ReadableLoop(_, _, _, _, _)
ReadableLoop(m, address, size, current_address, current_size) ==
    IF ~(current_size < size)
    THEN [status |-> "SUCCESS", size |-> size]
    ELSE LET info == VirtualQuery(m, current_address) IN
         IF ~info.ok
         THEN [status |-> "BAD_SYSTEMCALL", size |-> size]
         ELSE IF PageState(info.kind) # "MEM_COMMIT" \/ ~InReadMask(info.kind)
         THEN [status |-> "SUCCESS", size |-> current_size]
         ELSE IF current_size = 0
         THEN ReadableLoop(m, address, size, info.BaseAddress + info.RegionSize,
                           WrapU(address - info.BaseAddress))
         ELSE ReadableLoop(m, address, size, info.BaseAddress + info.RegionSize,
                           current_size + info.RegionSize)

ZyrexGetSizeOfReadableMemoryRegion(m, address, size) ==
    ReadableLoop(m, address, size, address, 0)

\* the number of committed readable bytes that really start at address,
\* counted up to cap
RECURSIVE ReadableBytes(_, _, _)
ReadableBytes(m, a, cap) ==
    IF cap = 0 \/ a >= AddressSpaceSize THEN 0
    ELSE IF ~InReadMask(m[PageOf(a)]) THEN 0
    ELSE 1 + ReadableBytes(m, a + 1, cap - 1)

(* ----------------------------------------------------------------------- *)
(* Decoder (external): instructions as the decoder reports them            *)
(* ----------------------------------------------------------------------- *)

\* a decoded instruction: length, mnemonic, ZYDIS_ATTRIB_IS_RELATIVE,
\* ZYDIS_ATTRIB_HAS_MODRM with mod = 0 and rm = 5, and the signed
\* displacement / immediate
Ins(len, mn, rel, modrm, val) ==
    [length |-> len, mnemonic |-> mn, is_relative |-> rel, rip_modrm |-> modrm,
     value |-> val]

Plain(len, mn) == Ins(len, mn, FALSE, FALSE, 0)

\* bytes past the end of a modelled function: one-byte instructions
Padding == Plain(1, "INT3")

\* push rbp; mov rbp, rsp; sub rsp, 0x20; ...
CodePlain == << Plain(1, "PUSH"), Plain(3, "MOV"), Plain(4, "SUB") >>

\* jrcxz $+0x10; ...
CodeJcxz == << Ins(2, "JRCXZ", TRUE, FALSE, 16), Plain(3, "MOV") >>

\* mov eax, 1; jrcxz $+0x10; ...  (the relative instruction starts at byte 5)
CodeLateJcxz == << Plain(5, "MOV"), Ins(2, "JRCXZ", TRUE, FALSE, 16) >>

\* six push; jnz $+0x10; push; ...  (eight instructions in nine bytes, the
\* relative one starts at byte 6)
CodePushes ==
    << Plain(1, "PUSH"), Plain(1, "PUSH"), Plain(1, "PUSH"), Plain(1, "PUSH"),
       Plain(1, "PUSH"), Plain(1, "PUSH"), Ins(2, "JNZ", TRUE, FALSE, 16),
       Plain(1, "PUSH") >>

InsAt(code, idx) == IF idx <= Len(code) THEN code[idx] ELSE Padding

\* ZydisDecoderDecodeBuffer on the instruction idx of the code at address
\* `at`, with `avail` bytes of buffer (an unsigned size): the decoder reads
\* the instruction's bytes one by one up to avail; reading a byte that is not
\* readable memory faults
ZydisDecoderDecodeBuffer(m, code, idx, at, avail) ==
    LET ins == InsAt(code, idx)
        touched == IF ins.length <= avail THEN ins.length ELSE avail
    IN  IF ReadableBytes(m, at, touched) < touched
        THEN [status |-> "CRASH", ins |-> ins]
        ELSE IF ins.length > avail
        THEN [status |-> "DECODE_NO_MORE_DATA", ins |-> ins]
        ELSE [status |-> "SUCCESS", ins |-> ins]

(* ----------------------------------------------------------------------- *)
(* ZyrexCalcAbsoluteAddress, ZyrexGetAddressRangeOfRelativeInstructions    *)
(* ----------------------------------------------------------------------- *)

\* 64-bit machine mode, 64-bit address width: both shapes add the length and
\* the signed operand to the runtime address, modulo the pointer size
ZyrexCalcAbsoluteAddress(ins, runtime_address) ==
    WrapU(runtime_address + ins.length + ins.value)

RECURSIVE RangeLoop(_, _, _, _, _, _, _, _, _)
RangeLoop(m, code, buffer, size, min_bytes_to_decode, idx, offset, lohi, result) ==
    IF ~(offset < min_bytes_to_decode)
    THEN [status |-> result, lo |-> lohi[1], hi |-> lohi[2]]
    ELSE LET d == ZydisDecoderDecodeBuffer(m, code, idx, buffer + offset,
                                           WrapU(size - offset))
         IN  IF d.status # "SUCCESS"
             THEN [status |-> d.status, lo |-> lohi[1], hi |-> lohi[2]]
             ELSE IF ~d.ins.is_relative
             THEN RangeLoop(m, code, buffer, size, min_bytes_to_decode, idx + 1,
                            offset + d.ins.length, lohi, result)
             ELSE LET result_address ==
                          ZyrexCalcAbsoluteAddress(d.ins, buffer + offset)
                      lo == IF result_address < lohi[1] THEN result_address
                            ELSE lohi[1]
                      hi == IF result_address > lohi[2] THEN result_address
                            ELSE lohi[2]
                  IN  RangeLoop(m, code, buffer, size, min_bytes_to_decode,
                                idx + 1, offset + d.ins.length, <<lo, hi>>, "TRUE")

\* the scan with a result that starts as ZYAN_STATUS_TRUE: its locals are
\* stored to the caller whether or not a relative instruction was seen
ZyrexGetAddressRangeOfRelativeInstructions_AlwaysStores(m, code, buffer, size, min_bytes_to_decode) ==
    RangeLoop(m, code, buffer, size, min_bytes_to_decode, 1, 0, <<0, 0>>, "TRUE")

\* status "TRUE" / "FALSE" (both successes) or the decoder's failure; lo and
\* hi are the function's locals, stored to the caller only on "TRUE"
ZyrexGetAddressRangeOfRelativeInstructions(m, code, buffer, size, min_bytes_to_decode) ==
    RangeLoop(m, code, buffer, size, min_bytes_to_decode, 1, 0, <<0, 0>>, "FALSE")

(* ----------------------------------------------------------------------- *)
(* Trampoline chunks and regions                                           *)
(* ----------------------------------------------------------------------- *)

ToSigned(x) == IF x >= PtrModulus \div 2 THEN x - PtrModulus ELSE x

ZYAN_ABS(x) == IF x < 0 THEN 0 - x ELSE x

\* a byte of chunk memory: a number, a byte copied from the address v of the
\* hooked function, or the byte v of an absolute jump
U8(v) == [t |-> "u8", v |-> v]

INT3 == U8(204)

\* the bytes of a chunk from its member `trampoline` to its end: the
\* trampoline (25 bytes), map.count, map.items[0 .. 4], padding
RawSize == SizeofChunk - OffsetofTrampoline

OffsetofMapCount == ZYREX_TRAMPOLINE_MAX_CODE_SIZE_WITH_BACKJUMP

OffsetofMapItem(i) == OffsetofMapCount + 1 + 2 * i

\* a chunk of freshly committed (zeroed) memory.  original_code and
\* original_code_size are the members the header declares for the saved bytes
\* of the hooked function; no statement of Trampoline.c stores to them
ZeroChunk ==
    [is_used |-> FALSE, callback_address |-> 0, callback_jump |-> FALSE,
     backjump_address |-> 0, raw |-> [i \in 0 .. (RawSize - 1) |-> U8(0)],
     original_code |-> [k \in 1 .. ZYREX_TRAMPOLINE_MAX_CODE_SIZE |-> U8(0)],
     original_code_size |-> 0]

\* raw with the bytes bs (a sequence) stored from index at on
StoreBytes(raw, at, bs) ==
    [i \in DOMAIN raw |->
        IF i >= at /\ i < at + Len(bs) THEN bs[i - at + 1] ELSE raw[i]]

\* ZyrexWriteAbsoluteJump: FF 25 disp32
AbsoluteJumpBytes == [k \in 1 .. ZYREX_SIZEOF_ABSOLUTE_JUMP |-> [t |-> "jmp", v |-> k]]

MapCount(chunk) == chunk.raw[OffsetofMapCount].v

MapItem(chunk, i) ==
    [offset_original |-> chunk.raw[OffsetofMapItem(i)].v,
     offset_trampoline |-> chunk.raw[OffsetofMapItem(i) + 1].v]

ChunkBase(region, i) == region + i * SizeofChunk

CodeAddress_OfChunkBelow(region, i) == ChunkBase(region, i - 1) + OffsetofTrampoline

\* &chunk->trampoline
CodeAddress(region, i) == ChunkBase(region, i) + OffsetofTrampoline

\* a region of freshly committed memory, its header initialized
FreshRegion(cpr) ==
    [signature |-> "zrex", number_of_unused_chunks |-> cpr - 1,
     chunks |-> [i \in 1 .. (cpr - 1) |-> ZeroChunk]]

(* ----------------------------------------------------------------------- *)
(* ZyrexTrampolineRegionInRange, ZyrexTrampolineRegionFindChunkInRegion    *)
(* ----------------------------------------------------------------------- *)

\* `a - b + b < a ? x : y` parses as `((a - b) + b) < a ? x : y`
ZyrexTrampolineRegionInRange(cpr, region_address, address_lo, address_hi) ==
    LET region_base == region_address + SizeofChunk
        distance_lo ==
            IF region_base - ToSigned(address_lo) + ToSigned(address_lo) < region_base
            THEN SizeofChunk
            ELSE SizeofChunk * (cpr - 1)
        distance_hi ==
            IF region_base - ToSigned(address_hi) + ToSigned(address_hi) < region_base
            THEN SizeofChunk
            ELSE SizeofChunk * (cpr - 1)
    IN  IF ZYAN_ABS(distance_lo) > RANGEOF_RELATIVE_JUMP THEN FALSE
        ELSE IF ZYAN_ABS(distance_hi) > RANGEOF_RELATIVE_JUMP THEN FALSE
        ELSE TRUE

ChunkDistanceOk_FromChunkBase(region, i, address_lo, address_hi) ==
    /\ ~(ZYAN_ABS(ChunkBase(region, i) - ToSigned(address_lo)) > RANGEOF_RELATIVE_JUMP)
    /\ ~(ZYAN_ABS(ChunkBase(region, i) - ToSigned(address_hi)) > RANGEOF_RELATIVE_JUMP)

\* the two distance tests of the chunk loop for chunk i
ChunkDistanceOk(region, i, address_lo, address_hi) ==
    LET chunk_base == ChunkBase(region, i)
        distance_lo_chunk ==
            chunk_base - ToSigned(address_lo) +
            (IF ToSigned(address_lo) < chunk_base THEN SizeofChunk ELSE 0)
        distance_hi_chunk ==
            chunk_base - ToSigned(address_hi) +
            (IF ToSigned(address_hi) < chunk_base THEN SizeofChunk ELSE 0)
    IN  /\ ~(ZYAN_ABS(distance_lo_chunk) > RANGEOF_RELATIVE_JUMP)
        /\ ~(ZYAN_ABS(distance_hi_chunk) > RANGEOF_RELATIVE_JUMP)

RECURSIVE ChunkLoop(_, _, _, _, _)
\* the index of the chunk found, 0 when the loop ends without one
ChunkLoop(cpr, region, i, address_lo, address_hi) ==
    IF ~(i < cpr) THEN 0
    ELSE IF ChunkDistanceOk(region, i, address_lo, address_hi) THEN i
    ELSE ChunkLoop(cpr, region, i + 1, address_lo, address_hi)

ZyrexTrampolineRegionFindChunkInRegion_NoCounterTest(hdr, cpr, region, address_lo, address_hi) ==
    IF ~ZyrexTrampolineRegionInRange(cpr, region, address_lo, address_hi) THEN 0
    ELSE ChunkLoop(cpr, region, 1, address_lo, address_hi)

\* the index of the chunk found in the region at address `region` with header
\* hdr, 0 for ZYAN_FALSE
ZyrexTrampolineRegionFindChunkInRegion(hdr, cpr, region, address_lo, address_hi) ==
    IF hdr.number_of_unused_chunks = 0 THEN 0
    ELSE IF ~ZyrexTrampolineRegionInRange(cpr, region, address_lo, address_hi) THEN 0
    ELSE ChunkLoop(cpr, region, 1, address_lo, address_hi)

(* ----------------------------------------------------------------------- *)
(* The region list: ZyanVectorBinarySearch, FindChunk, Insert              *)
(* ----------------------------------------------------------------------- *)

RECURSIVE BinarySearchLoop(_, _, _, _, _)
BinarySearchLoop(vec, key, l, h, status) ==
    IF l > h THEN [status |-> status, found_index |-> l]
    ELSE LET mid == l + ((h - l) \div 2) IN
         IF vec[mid + 1] < key
         THEN BinarySearchLoop(vec, key, mid + 1, h, status)
         ELSE BinarySearchLoop(vec, key, l, mid - 1,
                               IF vec[mid + 1] = key THEN "TRUE" ELSE status)

\* indices are 0-based as in the code; vec is a 1-based sequence
ZyanVectorBinarySearch(vec, key) ==
    IF Len(vec) = 0 THEN [status |-> "FALSE", found_index |-> 0]
    ELSE BinarySearchLoop(vec, key, 0, Len(vec) - 1, "FALSE")

ZyanVectorInsert(vec, index, element) ==
    SubSeq(vec, 1, index) \o <<element>> \o SubSeq(vec, index + 1, Len(vec))

FindChunkLoop_OnePass(vec, rm, cpr, lo, hi, address_lo, address_hi) ==
    LET at_lo == ZyrexTrampolineRegionFindChunkInRegion(
                     rm[vec[lo + 1]], cpr, vec[lo + 1], address_lo, address_hi)
        at_hi == IF hi < Len(vec)
                 THEN ZyrexTrampolineRegionFindChunkInRegion(
                          rm[vec[hi + 1]], cpr, vec[hi + 1], address_lo, address_hi)
                 ELSE 0
    IN  IF at_lo # 0
        THEN [status |-> "TRUE", region |-> vec[lo + 1], chunk |-> at_lo]
        ELSE IF at_hi # 0
        THEN [status |-> "TRUE", region |-> vec[hi + 1], chunk |-> at_hi]
        ELSE [status |-> "FALSE", region |-> NULLVAL, chunk |-> 0]

RECURSIVE FindChunkLoop(_, _, _, _, _, _, _)
FindChunkLoop(vec, rm, cpr, lo, hi, address_lo, address_hi) ==
    LET size == Len(vec)
        at_lo == IF lo >= 0
                 THEN ZyrexTrampolineRegionFindChunkInRegion(
                          rm[vec[lo + 1]], cpr, vec[lo + 1], address_lo, address_hi)
                 ELSE 0
        at_hi == IF hi < size
                 THEN ZyrexTrampolineRegionFindChunkInRegion(
                          rm[vec[hi + 1]], cpr, vec[hi + 1], address_lo, address_hi)
                 ELSE 0
    IN  IF lo >= 0 /\ at_lo # 0
        THEN [status |-> "TRUE", region |-> vec[lo + 1], chunk |-> at_lo]
        ELSE IF hi < size /\ at_hi # 0
        THEN [status |-> "TRUE", region |-> vec[hi + 1], chunk |-> at_hi]
        ELSE IF ~(lo >= 0) /\ ~(hi < size)
        THEN [status |-> "FALSE", region |-> NULLVAL, chunk |-> 0]
        ELSE FindChunkLoop(vec, rm, cpr,
                           IF lo >= 0 THEN lo - 1 ELSE lo,
                           IF hi < size THEN hi + 1 ELSE hi,
                           address_lo, address_hi)

ZyrexTrampolineRegionFindChunk(vec, rm, cpr, address_lo, address_hi) ==
    IF Len(vec) = 0
    THEN [status |-> "FALSE", region |-> NULLVAL, chunk |-> 0]
    ELSE LET mid == WrapU(address_lo + address_hi) \div 2
             bs == ZyanVectorBinarySearch(vec, mid)
             found_index == IF bs.found_index = Len(vec)
                            THEN bs.found_index - 1 ELSE bs.found_index
         IN  FindChunkLoop(vec, rm, cpr, found_index, found_index + 1,
                           address_lo, address_hi)

ZyrexTrampolineRegionInsert_Append(vec, region) == Append(vec, region)

ZyrexTrampolineRegionInsert(vec, region) ==
    ZyanVectorInsert(vec, ZyanVectorBinarySearch(vec, region).found_index, region)

(* ----------------------------------------------------------------------- *)
(* ZyrexTrampolineRegionAllocate                                           *)
(* ----------------------------------------------------------------------- *)

ZYAN_IS_ALIGNED_TO(x, align) == x % align = 0

ZYAN_ALIGN_DOWN(x, align) == x - (x % align)

ZYAN_ALIGN_UP(x, align) == ((x + align - 1) \div align) * align

\* the two pairs of tests that keep a probe address between the minimum and
\* the maximum application address
ClampToApplicationRange(a) ==
    LET b == IF a < lpMinimumApplicationAddress THEN lpMinimumApplicationAddress
             ELSE a
    IN  IF b > lpMaximumApplicationAddress THEN lpMaximumApplicationAddress ELSE b

\* VirtualAlloc(address, size, MEM_RESERVE | MEM_COMMIT, PAGE_EXECUTE_READWRITE):
\* the address is rounded down to the allocation granularity; every page of
\* the range must be free
VirtualAlloc(m, address, size) ==
    LET base == ZYAN_ALIGN_DOWN(address, AllocationGranularity)
        ps == PagesOfRange(base, size)
    IN  IF /\ base >= lpMinimumApplicationAddress
           /\ base + size - 1 <= lpMaximumApplicationAddress
           /\ \A p \in ps : m[p] = "free"
        THEN [ok |-> TRUE, base |-> base,
              mem |-> [p \in Pages |-> IF p \in ps THEN "rwx" ELSE m[p]]]
        ELSE [ok |-> FALSE, base |-> NULLVAL, mem |-> m]

\* one probe of the loop at alloc_address: "skip" when the address is not in
\* range, else the query and, on a large enough free block, the allocation
Probe(m, cpr, region_size, alloc_address, address_lo, address_hi) ==
    IF ~ZyrexTrampolineRegionInRange(cpr, alloc_address, address_lo, address_hi)
    THEN [kind |-> "skip", base |-> NULLVAL, mem |-> m, info_base |-> 0]
    ELSE LET info == VirtualQuery(m, alloc_address) IN
         IF ~info.ok
         THEN [kind |-> "badcall", base |-> NULLVAL, mem |-> m, info_base |-> 0]
         ELSE LET va == IF PageState(info.kind) = "MEM_FREE" /\ info.RegionSize >= region_size
                        THEN VirtualAlloc(m, alloc_address, region_size)
                        ELSE [ok |-> FALSE, base |-> NULLVAL, mem |-> m]
              IN  IF va.ok
                  THEN [kind |-> "allocated", base |-> va.base, mem |-> va.mem,
                        info_base |-> info.BaseAddress]
                  ELSE [kind |-> "next", base |-> NULLVAL, mem |-> m,
                        info_base |-> info.BaseAddress]

RECURSIVE AllocateLoop(_, _, _, _, _, _, _, _)
\* seen: the probe pairs of the earlier iterations; memory does not change
\* while the loop runs, so a pair that comes back means the loop never ends;
\* probes: every address the loop handed to ZyrexTrampolineRegionInRange
AllocateLoop(m, cpr, region_size, address_lo, address_hi, alloc_lo, alloc_hi, seen) ==
    LET \* one iteration: a_lo and a_hi are the clamped addresses, p_lo and
        \* p_hi what their probes give, before the addresses probed so far
        Iteration(a_lo, a_hi, p_lo, p_hi, before) ==
            IF <<a_lo, a_hi>> \in seen
            THEN [status |-> "HANG", region |-> NULLVAL, mem |-> m, probes |-> before]
            ELSE IF p_lo.kind = "badcall"
            THEN [status |-> "BAD_SYSTEMCALL", region |-> NULLVAL, mem |-> m,
                  probes |-> before \cup {a_lo}]
            ELSE IF p_lo.kind = "allocated"
            THEN [status |-> "SUCCESS", region |-> p_lo.base, mem |-> p_lo.mem,
                  probes |-> before \cup {a_lo}]
            ELSE IF p_hi.kind = "badcall"
            THEN [status |-> "BAD_SYSTEMCALL", region |-> NULLVAL, mem |-> m,
                  probes |-> before \cup {a_lo, a_hi}]
            ELSE IF p_hi.kind = "allocated"
            THEN [status |-> "SUCCESS", region |-> p_hi.base, mem |-> p_hi.mem,
                  probes |-> before \cup {a_lo, a_hi}]
            ELSE IF p_lo.kind = "skip" /\ p_hi.kind = "skip"
            THEN [status |-> "OUT_OF_RANGE", region |-> NULLVAL, mem |-> m,
                  probes |-> before \cup {a_lo, a_hi}]
            ELSE AllocateLoop(m, cpr, region_size, address_lo, address_hi,
                     IF p_lo.kind = "next" THEN WrapU(p_lo.info_base - region_size)
                     ELSE a_lo,
                     IF p_hi.kind = "next" THEN WrapU(p_hi.info_base + region_size)
                     ELSE a_hi,
                     seen \cup {<<a_lo, a_hi>>})
        Clamped(a_lo, a_hi) ==
            Iteration(a_lo, a_hi,
                      Probe(m, cpr, region_size, a_lo, address_lo, address_hi),
                      Probe(m, cpr, region_size, a_hi, address_lo, address_hi),
                      { p[1] : p \in seen } \cup { p[2] : p \in seen })
    IN  Clamped(ClampToApplicationRange(alloc_lo), ClampToApplicationRange(alloc_hi))

\* status, the base of the new region and the memory map after the call; the
\* caller's region memory gets FreshRegion at that base
ZyrexTrampolineRegionAllocate(m, cpr, region_size, address_lo, address_hi) ==
    LET mid == WrapU(address_lo + address_hi) \div 2 IN
    AllocateLoop(m, cpr, region_size, address_lo, address_hi,
                 ZYAN_ALIGN_DOWN(mid, region_size), ZYAN_ALIGN_UP(mid, region_size), {})

(* ----------------------------------------------------------------------- *)
(* ZyrexTrampolineRegionProtect / Unprotect / Free                         *)
(* ----------------------------------------------------------------------- *)

\* what the operating system does with a call that changes pages: it does
\* it, or it refuses and returns 0
OsAnswers == {"done", "refused"}

\* an operating system that refuses nothing
Cooperative == {"done"}

\* VirtualProtect(region, sizeof(ZyrexTrampolineChunk), protection): the
\* pages that hold a byte of the range change
VirtualProtect(m, address, size, kind, os) ==
    IF os = "refused" THEN [ok |-> FALSE, mem |-> m]
    ELSE [ok |-> TRUE,
          mem |-> [p \in Pages |->
                      IF p \in PagesOfRange(address, size) THEN kind ELSE m[p]]]

\* VirtualFree(region, 0, MEM_RELEASE)
VirtualFree(m, region, os) ==
    IF os = "refused" THEN [ok |-> FALSE, mem |-> m]
    ELSE [ok |-> TRUE,
          mem |-> [p \in Pages |->
                      IF p \in PagesOfRange(region, AllocationGranularity)
                      THEN "free" ELSE m[p]]]

\* `if (!call) return ZYAN_STATUS_BAD_SYSTEMCALL; return ZYAN_STATUS_SUCCESS;`
StatusOfSystemCall(r) ==
    [status |-> IF r.ok THEN "SUCCESS" ELSE "BAD_SYSTEMCALL", mem |-> r.mem]

ZyrexTrampolineRegionProtect(m, region, os) ==
    StatusOfSystemCall(VirtualProtect(m, region, SizeofChunk, "rx", os))

ZyrexTrampolineRegionUnprotect(m, region, os) ==
    StatusOfSystemCall(VirtualProtect(m, region, SizeofChunk, "rwx", os))

ZyrexTrampolineRegionFree(m, region, os) ==
    StatusOfSystemCall(VirtualFree(m, region, os))

(* ----------------------------------------------------------------------- *)
(* ZyrexTrampolineChunkInit                                                *)
(* ----------------------------------------------------------------------- *)

ZYREX_TRAMPOLINE_FLAG_REWRITE_CALL == "REWRITE_CALL"

ZYREX_TRAMPOLINE_FLAG_REWRITE_JCXZ == "REWRITE_JCXZ"

ZYREX_TRAMPOLINE_FLAG_REWRITE_LOOP == "REWRITE_LOOP"

AllFlags ==
    {ZYREX_TRAMPOLINE_FLAG_REWRITE_CALL, ZYREX_TRAMPOLINE_FLAG_REWRITE_JCXZ,
     ZYREX_TRAMPOLINE_FLAG_REWRITE_LOOP}

\* the switch over the mnemonic of a relative instruction: TRUE when the case
\* returns ZYAN_STATUS_FAILED
RewriteRefused(ins, flags) ==
    IF ins.mnemonic = "CALL"
    THEN ZYREX_TRAMPOLINE_FLAG_REWRITE_CALL \notin flags
    ELSE IF ins.mnemonic \in {"JCXZ", "JECXZ", "JRCXZ"}
    THEN ZYREX_TRAMPOLINE_FLAG_REWRITE_JCXZ \notin flags
    ELSE IF ins.mnemonic \in {"LOOP", "LOOPE", "LOOPNE"}
    THEN ZYREX_TRAMPOLINE_FLAG_REWRITE_LOOP \notin flags
    ELSE FALSE

\* the bytes [from, from + n) of the hooked function
SourceBytes(from, n) == [k \in 1 .. n |-> [t |-> "src", v |-> from + k - 1]]

\* the two assertions at the head of the relocation loop
LoopAssertionFails(instructions_read, bytes_written) ==
    \/ ~(bytes_written < ZYREX_TRAMPOLINE_MAX_CODE_SIZE)
    \/ ~(instructions_read < ZYREX_TRAMPOLINE_MAX_INSTRUCTION_COUNT)

RECURSIVE RelocateLoop(_, _, _, _, _, _, _, _, _, _)
RelocateLoop(m, chunk, address, code, min_bytes_to_reloc, max_bytes_to_read, flags, instructions_read, bytes_read, bytes_written) ==
    IF ~(bytes_read < min_bytes_to_reloc)
    THEN [status |-> "SUCCESS", chunk |-> chunk, instructions_read |-> instructions_read,
          bytes_read |-> bytes_read, bytes_written |-> bytes_written,
          asserted |-> FALSE]
    ELSE LET asserted == LoopAssertionFails(instructions_read, bytes_written)
             d == ZydisDecoderDecodeBuffer(m, code, instructions_read + 1,
                      address + bytes_read, WrapU(max_bytes_to_read - bytes_read))
             ins == d.ins
             copied == IF ins.is_relative THEN chunk.raw
                       ELSE StoreBytes(chunk.raw, bytes_written,
                                       SourceBytes(address + bytes_read, ins.length))
             mapped == StoreBytes(copied, OffsetofMapItem(instructions_read),
                                  << U8(bytes_read % 256), U8(bytes_written % 256) >>)
         IN  IF d.status # "SUCCESS"
             THEN [status |-> d.status, chunk |-> chunk,
                   instructions_read |-> instructions_read,
                   bytes_read |-> bytes_read, bytes_written |-> bytes_written,
                   asserted |-> asserted]
             ELSE IF ins.is_relative /\ RewriteRefused(ins, flags)
             THEN [status |-> "FAILED", chunk |-> chunk,
                   instructions_read |-> instructions_read,
                   bytes_read |-> bytes_read, bytes_written |-> bytes_written,
                   asserted |-> asserted]
             ELSE LET rest == RelocateLoop(m, [chunk EXCEPT !.raw = mapped], address,
                                  code, min_bytes_to_reloc, max_bytes_to_read, flags,
                                  instructions_read + 1, bytes_read + ins.length,
                                  bytes_written + ins.length)
                  IN  [rest EXCEPT !.asserted = @ \/ asserted]

\* the INT 3 fill: bytes_remaining bytes from the end of the backjump on
FillInt3(raw, bytes_written) ==
    LET bytes_remaining ==
            WrapU(ZYREX_TRAMPOLINE_MAX_CODE_SIZE_WITH_BACKJUMP - bytes_written)
    IN  IF bytes_remaining > 0
        THEN StoreBytes(raw, bytes_written + ZYREX_SIZEOF_ABSOLUTE_JUMP,
                        [k \in 1 .. bytes_remaining |-> INT3])
        ELSE raw

\* the index of the first map item whose bytes lie behind the chunk, in the
\* first bytes of the chunk that follows (is_used and its padding)
FirstItemBehindChunk == (RawSize - OffsetofMapItem(0)) \div 2

\* the number of bytes of map items stored behind the chunk when
\* instructions_read items were stored
BytesBehindChunk(instructions_read) ==
    IF instructions_read > FirstItemBehindChunk
    THEN 2 * (instructions_read - FirstItemBehindChunk)
    ELSE 0

\* the bytes of a region behind its last chunk
TailOfRegion(region_size, cpr) == region_size - cpr * SizeofChunk

\* the map items stored behind chunk i run past the end of the region
PastRegionEnd(region_size, cpr, i, instructions_read) ==
    /\ i = cpr - 1
    /\ BytesBehindChunk(instructions_read) > TailOfRegion(region_size, cpr)

\* chunk->backjump_address without the instruction-boundary offset
BackjumpAddress_AtTarget(address, bytes_read) == address

\* chunk->backjump_address = (ZyanUPointer)address + bytes_read
BackjumpAddress(address, bytes_read) == WrapU(address + bytes_read)

\* status and the chunk's memory after the call, the locals of the call when
\* it returned, whether an assertion of the loop failed on the way (a debug
\* build stops there), and whether a map item was stored behind the chunk
\* (the codes of a run relocate so few instructions that only the first such
\* item, with offset_original > 0, is ever stored: it lands on the next
\* chunk's is_used)
ZyrexTrampolineChunkInit(m, chunk, address, code, callback, min_bytes_to_reloc, max_bytes_to_read, flags) ==
    LET used == [chunk EXCEPT !.is_used = TRUE, !.callback_address = callback,
                              !.callback_jump = TRUE]
        \* the part of the function behind the loop, r being what the loop left
        AfterLoop(r) ==
            LET jumped == StoreBytes(r.chunk.raw, r.bytes_written, AbsoluteJumpBytes)
                counted == StoreBytes(jumped, OffsetofMapCount,
                                      << U8(r.instructions_read % 256) >>)
                locals == [instructions_read |-> r.instructions_read,
                           bytes_read |-> r.bytes_read,
                           bytes_written |-> r.bytes_written,
                           asserted |-> r.asserted,
                           spills |-> r.instructions_read > FirstItemBehindChunk]
            IN  IF r.status # "SUCCESS"
                THEN [status |-> r.status, chunk |-> r.chunk, locals |-> locals]
                ELSE IF r.bytes_written > ZYREX_TRAMPOLINE_MAX_CODE_SIZE_WITH_BACKJUMP
                THEN [status |-> "CRASH", chunk |-> r.chunk, locals |-> locals]
                ELSE [status |-> "SUCCESS",
                      chunk |-> [r.chunk EXCEPT
                                    !.backjump_address =
                                        BackjumpAddress(address, r.bytes_read),
                                    !.raw = FillInt3(counted, r.bytes_written)],
                      locals |-> locals]
    IN  AfterLoop(RelocateLoop(m, used, address, code, min_bytes_to_reloc,
                               max_bytes_to_read, flags, 0, 0, 0))

(* ----------------------------------------------------------------------- *)
(* State                                                                   *)
(* ----------------------------------------------------------------------- *)

VARIABLES
    mem,                \* the process's pages: page -> PageKinds
    is_initialized,     \* g_trampoline_data.is_initialized
    region_size,        \* g_trampoline_data.region_size
    chunks_per_region,  \* g_trampoline_data.chunks_per_region
    regions,            \* g_trampoline_data.regions: region addresses
    region_mem,         \* the memory of every allocated trampoline region
    out_handle,         \* the caller's ZyrexTrampoline: address_of_trampoline_code
    handles,            \* the handles create has returned, and how often each was freed
    last                \* the last call: its arguments, status and what it computed

vars == << mem, is_initialized, region_size, chunks_per_region, regions, region_mem,
           out_handle, handles, last >>

\* what the engine owns and what it shows the caller
engine == << mem, is_initialized, region_size, chunks_per_region, regions, region_mem,
             out_handle >>

(* ----------------------------------------------------------------------- *)
(* The hooked functions and the calls of a run                             *)
(* ----------------------------------------------------------------------- *)

\* the granule that holds the hooked functions
HomeSlot == 2

CallbackAddress == SlotBase(HomeSlot) + 100

\* the hooked functions: where they start and what the decoder sees there
Targets ==
    << [address |-> SlotBase(HomeSlot) + 40, code |-> CodePlain],
       [address |-> SlotBase(HomeSlot) + 48, code |-> CodeJcxz],
       [address |-> SlotBase(HomeSlot) + 3, code |-> CodePlain],
       [address |-> SlotBase(HomeSlot + 1) - PageSize - 3, code |-> CodePlain],
       [address |-> SlotBase(HomeSlot), code |-> CodePlain],
       [address |-> SlotBase(HomeSlot) + 56, code |-> CodeLateJcxz],
       [address |-> SlotBase(HomeSlot) + 64, code |-> CodePushes] >>

TargetAddress(t) == IF t = 0 THEN NULLVAL ELSE Targets[t].address

TargetCode(t) == IF t = 0 THEN << >> ELSE Targets[t].code

Call(t, cb, n, f, o) ==
    [target |-> t, callback |-> cb, min_bytes_to_reloc |-> n, flags |-> f, out |-> o]

\* the create calls of a run: every hooked function with the size of a
\* relative jump and all flags, some with one byte or no flag, and one call
\* for each argument the entry check rejects
CreateCalls ==
    { Call(t, CallbackAddress, ZYREX_SIZEOF_RELATIVE_JUMP, AllFlags, TRUE) :
          t \in 1 .. 5 }
    \cup { Call(2, CallbackAddress, ZYREX_SIZEOF_RELATIVE_JUMP, {}, TRUE),
           Call(6, CallbackAddress, ZYREX_SIZEOF_RELATIVE_JUMP + 1, {}, TRUE),
           Call(6, CallbackAddress, ZYREX_SIZEOF_RELATIVE_JUMP + 1, AllFlags, TRUE),
           Call(7, CallbackAddress, ZYREX_SIZEOF_RELATIVE_JUMP + 4, AllFlags, TRUE),
           Call(3, CallbackAddress, 1, AllFlags, TRUE),
           Call(5, CallbackAddress, 1, AllFlags, TRUE),
           Call(0, CallbackAddress, 1, AllFlags, TRUE),
           Call(1, NULLVAL, 1, AllFlags, TRUE),
           Call(1, CallbackAddress, 0, AllFlags, TRUE),
           Call(1, CallbackAddress, 1, AllFlags, FALSE) }

\* a memory map a run can start with: the home granule holds code, its last
\* page possibly not accessible; the granules of `occupied` hold foreign
\* code; granule 0 is free, the top granule is reserved
Layout(tail, occupied) ==
    [p \in Pages |->
        IF p \in PagesOfSlot(0) THEN "free"
        ELSE IF p \in PagesOfSlot(TopSlot) THEN "reserved"
        ELSE IF p \in PagesOfSlot(HomeSlot)
        THEN (IF p = (HomeSlot + 1) * PagesPerRegion - 1 THEN tail ELSE "code")
        ELSE IF \E s \in occupied : p \in PagesOfSlot(s) THEN "code"
        ELSE "free"]

\* foreign code fills the granules around the home granule from the inside
\* out, up to every granule an application can use
OccupiedChoices ==
    { {}, {HomeSlot + 1}, {HomeSlot - 1, HomeSlot + 1},
      (1 .. (TopSlot - 1)) \ {HomeSlot} }

Layouts ==
    { Layout("code", occupied) : occupied \in OccupiedChoices }
    \cup { Layout("noaccess", {}) }

NoDiag ==
    [source_size |-> 0 - 1, readable |-> 0 - 1, lo |-> 0, hi |-> 0, region |-> NULLVAL,
     chunk_region |-> NULLVAL, chunk |-> 0, is_new_region |-> FALSE,
     allocated |-> FALSE, instructions_read |-> 0 - 1, bytes_read |-> 0 - 1,
     bytes_written |-> 0 - 1, refused |-> "none", probes |-> {}]

Init ==
    /\ mem \in Layouts
    /\ is_initialized = FALSE
    /\ region_size = 0
    /\ chunks_per_region = 0
    /\ regions = << >>
    /\ region_mem = [r \in {} |-> FreshRegion(1)]
    /\ out_handle = NULLVAL
    /\ handles = << >>
    /\ last = [op |-> "none", entry |-> "none", status |-> "SUCCESS",
               call |-> Call(0, 0, 0, {}, FALSE), diag |-> NoDiag]

\* the process is gone after a fault or a failed assertion, and never returns
\* from a loop that does not end
Running == last.status \notin {"CRASH", "HANG"}

(* ----------------------------------------------------------------------- *)
(* ZyrexTrampolineCreateEx                                                 *)
(* ----------------------------------------------------------------------- *)

\* the engine's state as a record
Engine(m, init, rsize, cpr, vec, rm, out) ==
    [mem |-> m, is_initialized |-> init, region_size |-> rsize,
     chunks_per_region |-> cpr, regions |-> vec, region_mem |-> rm, out_handle |-> out]

Current ==
    Engine(mem, is_initialized, region_size, chunks_per_region, regions, region_mem,
           out_handle)

Outcome(e, status, diag) == [engine |-> e, status |-> status, diag |-> diag]

\* every page that holds a byte of chunk i of the region is writable
ChunkWritable(m, region, i) ==
    \A p \in PagesOfRange(ChunkBase(region, i), SizeofChunk) : m[p] = "rwx"

WithRegion(rm, region, r) ==
    [x \in (DOMAIN rm) \cup {region} |-> IF x = region THEN r ELSE rm[x]]

WithoutRegion(rm, region) == [x \in (DOMAIN rm) \ {region} |-> rm[x]]

\* the first bytes of the region, header.signature, overwritten by map items
WithHeaderOverwritten(rm, region) ==
    [x \in DOMAIN rm |->
        IF x = region
        THEN [signature |-> "items",
              number_of_unused_chunks |-> rm[x].number_of_unused_chunks,
              chunks |-> rm[x].chunks]
        ELSE rm[x]]

\* --region->header.number_of_unused_chunks, a ZyanUSize
TakeChunk(rm, region) ==
    [x \in DOMAIN rm |->
        IF x = region
        THEN [rm[x] EXCEPT !.number_of_unused_chunks = (@ - 1) % PtrModulus]
        ELSE rm[x]]

\* the ways the part of create from ZyrexTrampolineChunkInit on can end: the region
\* `region` (new when is_new_region) and the chunk i of the region chunk_region;
\* answers: what the operating system may answer to a call
BuildAndPublish(e, c, d, region, is_new_region, chunk_region, i, answers) ==
    LET address == TargetAddress(c.target)
        behind == chunk_region + e.region_size
        \* the part of create behind the call, ci being what the call left,
        \* written the region memory with what it stored, past whether it
        \* stored past the end of the region, diag the record of the call
        Built(ci, written, past, diag) ==
            LET \* the status of the call named `call` is discarded
                Unused(call, r) ==
                    [mem |-> r.mem,
                     diag |-> IF r.status = "SUCCESS" THEN diag
                              ELSE [diag EXCEPT !.refused = call]]
                Failed(released, protected) ==
                    IF is_new_region
                    THEN Outcome([e EXCEPT
                                     !.mem = released.mem,
                                     !.region_mem =
                                         IF released.diag.refused = "none"
                                         THEN WithoutRegion(written, region)
                                         ELSE written],
                                 ci.status, released.diag)
                    ELSE Outcome([e EXCEPT !.mem = protected.mem,
                                           !.region_mem = written],
                                 ci.status, protected.diag)
                Succeeded(protected) ==
                    Outcome(
                        [e EXCEPT
                            !.out_handle = CodeAddress(chunk_region, i),
                            !.region_mem = TakeChunk(written, region),
                            !.mem = protected.mem,
                            !.regions = IF is_new_region
                                        THEN ZyrexTrampolineRegionInsert(e.regions, region)
                                        ELSE e.regions],
                        "SUCCESS", protected.diag)
                Returned(os) ==
                    IF ci.status # "SUCCESS"
                    THEN Failed(Unused("ZyrexTrampolineRegionFree",
                                       ZyrexTrampolineRegionFree(e.mem, region, os)),
                                Unused("ZyrexTrampolineRegionProtect",
                                       ZyrexTrampolineRegionProtect(e.mem, region, os)))
                    ELSE Succeeded(Unused("ZyrexTrampolineRegionProtect",
                                          ZyrexTrampolineRegionProtect(e.mem, region, os)))
            IN  IF \/ ~ChunkWritable(e.mem, chunk_region, i)
                   \/ ci.status = "CRASH"
                   \/ past /\ (behind >= AddressSpaceSize \/ e.mem[PageOf(behind)] # "rwx")
                THEN { Outcome(e, "CRASH", diag) }
                ELSE IF ci.locals.asserted
                THEN \* a failed assertion stops a debug build; a release build goes on
                     { Outcome(e, "CRASH", diag) } \cup { Returned(os) : os \in answers }
                ELSE { Returned(os) : os \in answers }
        \* stored: the region memory with the chunk; items stored past the end
        \* of the region land in the granule behind it
        Stored(ci, stored, past) ==
            Built(ci,
                  IF ci.locals.spills /\ i + 1 \in DOMAIN stored[chunk_region].chunks
                  THEN [stored EXCEPT ![chunk_region].chunks[i + 1].is_used = TRUE]
                  ELSE IF past /\ behind \in DOMAIN stored
                  THEN WithHeaderOverwritten(stored, behind)
                  ELSE stored,
                  past,
                  [d EXCEPT !.region = region, !.chunk_region = chunk_region,
                            !.chunk = i, !.is_new_region = is_new_region,
                            !.instructions_read = ci.locals.instructions_read,
                            !.bytes_read = ci.locals.bytes_read,
                            !.bytes_written = ci.locals.bytes_written])
        AfterInit(ci) ==
            Stored(ci,
                   [e.region_mem EXCEPT ![chunk_region].chunks[i] = ci.chunk],
                   PastRegionEnd(e.region_size, e.chunks_per_region, i,
                                 ci.locals.instructions_read))
    IN  AfterInit(ZyrexTrampolineChunkInit(
            e.mem, e.region_mem[chunk_region].chunks[i], address,
            TargetCode(c.target), c.callback, c.min_bytes_to_reloc, d.source_size,
            c.flags))

\* the part of create after the window [lo, hi] is known
PlaceAndBuild(e, c, d, answers) ==
    LET fresh == FreshRegion(e.chunks_per_region)
        \* the call ends here with status, or goes on ("build") to build the
        \* chunk i of the region chunk_region
        Ends(e1, status, d1) ==
            [e |-> e1, d |-> d1, ends |-> status, region |-> NULLVAL,
             is_new_region |-> FALSE, chunk_region |-> NULLVAL, i |-> 0]
        Builds(e1, d1, region, is_new_region, chunk_region, i) ==
            [e |-> e1, d |-> d1, ends |-> "build", region |-> region,
             is_new_region |-> is_new_region, chunk_region |-> chunk_region, i |-> i]
        \* the branch that allocates a region, al being what the allocation
        \* left and i_new the chunk found in the new region
        InNewRegion(al, e_new, i_new, d_new) ==
            IF al.status # "SUCCESS"
            THEN { Ends(e, al.status, [d EXCEPT !.probes = al.probes]) }
            ELSE IF i_new # 0
            THEN { Builds(e_new, d_new, al.region, TRUE, al.region, i_new) }
            ELSE \* no chunk of the new region is in reach: `chunk` was never
                 \* assigned.  The assertion stops a debug build; a release
                 \* build goes on with whatever the pointer holds
                 { Ends(e_new, "CRASH", d_new) }
                 \cup { Builds(e_new, d_new, al.region, FALSE, r, i) :
                            r \in DOMAIN e_new.region_mem,
                            i \in 1 .. (e.chunks_per_region - 1) }
        Allocated(al) ==
            \* ZyrexTrampolineRegionInRange asserts that the address it is
            \* handed is aligned to region_size: a debug build stops at the
            \* first probe that is not, a release build goes on
            (IF \E a \in al.probes : ~ZYAN_IS_ALIGNED_TO(a, e.region_size)
             THEN { Ends(e, "CRASH", [d EXCEPT !.probes = al.probes]) }
             ELSE {})
            \cup
            InNewRegion(al,
                [e EXCEPT !.mem = al.mem,
                          !.region_mem = WithRegion(e.region_mem, al.region, fresh)],
                ZyrexTrampolineRegionFindChunkInRegion(
                    fresh, e.chunks_per_region, al.region, d.lo, d.hi),
                [d EXCEPT !.allocated = TRUE, !.region = al.region,
                          !.probes = al.probes])
        \* fc: what the search of the pool left
        Unprotected(fc, up) ==
            IF up.status # "SUCCESS"
            THEN Ends(e, up.status,
                      [d EXCEPT !.refused = "ZyrexTrampolineRegionUnprotect"])
            ELSE Builds([e EXCEPT !.mem = up.mem], d, fc.region, FALSE,
                        fc.region, fc.chunk)
        Found(fc) ==
            IF fc.status = "TRUE"
            THEN { Unprotected(fc, ZyrexTrampolineRegionUnprotect(
                                       e.mem, fc.region, os)) :
                       os \in answers }
            ELSE Allocated(ZyrexTrampolineRegionAllocate(
                     e.mem, e.chunks_per_region, e.region_size, d.lo, d.hi))
        Continued(p) ==
            IF p.ends # "build"
            THEN { Outcome(p.e, p.ends, p.d) }
            ELSE BuildAndPublish(p.e, c, p.d, p.region, p.is_new_region,
                                 p.chunk_region, p.i, answers)
    IN  UNION { Continued(p) :
                    p \in Found(ZyrexTrampolineRegionFindChunk(
                                    e.regions, e.region_mem, e.chunks_per_region,
                                    d.lo, d.hi)) }

\* the entry check without its test of min_bytes_to_reloc
ArgumentsRejected_NoSizeTest(address, callback, min_bytes_to_reloc, out) ==
    address = NULLVAL \/ callback = NULLVAL \/ ~out

\* the entry check of create
ChunksPerRegion_RoundedUp(size) == (size + SizeofChunk - 1) \div SizeofChunk

\* region_size / sizeof(ZyrexTrampolineChunk), an unsigned division
ChunksPerRegion(size) == size \div SizeofChunk

ArgumentsRejected_FarCallback(address, callback, min_bytes_to_reloc, out) ==
    \/ address = NULLVAL \/ callback = NULLVAL \/ min_bytes_to_reloc < 1 \/ ~out
    \/ callback - address > RANGEOF_RELATIVE_JUMP
    \/ address - callback > RANGEOF_RELATIVE_JUMP

ArgumentsRejected(address, callback, min_bytes_to_reloc, out) ==
    address = NULLVAL \/ callback = NULLVAL \/ min_bytes_to_reloc < 1 \/ ~out

\* every way the call c can end from the engine state e0 when the operating
\* system answers its calls with one of answers
CreateExOutcomes(e0, c, answers) ==
    LET address == TargetAddress(c.target)
        \* the window test, [lo, hi] being the window and d holding it
        Windowed(e, d, lo, hi) ==
            IF WrapU(hi - lo) > RANGEOF_RELATIVE_JUMP
            THEN { Outcome(e, "INVALID_OPERATION", d) }
            ELSE PlaceAndBuild(e, c, d, answers)
        Widened(e, d0, lo0, hi0) ==
            Windowed(e, [d0 EXCEPT !.lo = IF address < lo0 THEN address ELSE lo0,
                                   !.hi = IF address > hi0 THEN address ELSE hi0],
                     IF address < lo0 THEN address ELSE lo0,
                     IF address > hi0 THEN address ELSE hi0)
        \* rr: what the scan for relative instructions left
        Ranged(e, d0, rr) ==
            IF rr.status \notin {"TRUE", "FALSE"}
            THEN { Outcome(e, rr.status, d0) }
            ELSE Widened(e, d0, IF rr.status = "TRUE" THEN rr.lo ELSE WrapU(0 - 1),
                         IF rr.status = "TRUE" THEN rr.hi ELSE 0)
        \* the pool is initialized on the first call that comes this far
        Initialized(e, d0, size) ==
            Ranged(e, d0, ZyrexGetAddressRangeOfRelativeInstructions(
                              e.mem, TargetCode(c.target), address, size,
                              ZYREX_SIZEOF_RELATIVE_JUMP))
        \* rs: what the query of the readable size left
        Sized(rs, d0) ==
            IF rs.status # "SUCCESS"
            THEN { Outcome(e0, rs.status, d0) }
            ELSE IF rs.size < c.min_bytes_to_reloc
            THEN { Outcome(e0, "INVALID_OPERATION", d0) }
            ELSE Initialized(
                     IF e0.is_initialized THEN e0
                     ELSE [e0 EXCEPT !.regions = << >>,
                                     !.region_size = AllocationGranularity,
                                     !.chunks_per_region =
                                         ChunksPerRegion(AllocationGranularity),
                                     !.is_initialized = TRUE],
                     d0, rs.size)
        Queried(rs) ==
            Sized(rs, [NoDiag EXCEPT
                          !.source_size = rs.size,
                          !.readable = ReadableBytes(e0.mem, address,
                                                     ZYREX_TRAMPOLINE_MAX_CODE_SIZE)])
    IN  IF ArgumentsRejected(address, c.callback, c.min_bytes_to_reloc, c.out)
        THEN { Outcome(e0, "INVALID_ARGUMENT", NoDiag) }
        ELSE Queried(ZyrexGetSizeOfReadableMemoryRegion(
                         e0.mem, address, ZYREX_TRAMPOLINE_MAX_CODE_SIZE))

\* the flags ZyrexTrampolineCreate passes on, without the one for JCXZ
ZyrexTrampolineCreateFlags_NoJcxz ==
    {ZYREX_TRAMPOLINE_FLAG_REWRITE_CALL, ZYREX_TRAMPOLINE_FLAG_REWRITE_LOOP}

\* the flags ZyrexTrampolineCreate passes on
ZyrexTrampolineCreateFlags ==
    {ZYREX_TRAMPOLINE_FLAG_REWRITE_CALL, ZYREX_TRAMPOLINE_FLAG_REWRITE_JCXZ,
     ZYREX_TRAMPOLINE_FLAG_REWRITE_LOOP}

\* every way ZyrexTrampolineCreate can end from the engine state e0
ZyrexTrampolineCreateOutcomes(e0, target, callback, min_bytes_to_reloc, out, answers) ==
    CreateExOutcomes(e0, Call(target, callback, min_bytes_to_reloc,
                              ZyrexTrampolineCreateFlags, out), answers)

\* the call c, made through the function `entry`, returns one of outcomes
CallReturns(c, entry, outcomes) ==
    /\ Running
    /\ Len(handles) < MaxCreates
    /\ \E o \in outcomes :
          /\ mem' = o.engine.mem
          /\ is_initialized' = o.engine.is_initialized
          /\ region_size' = o.engine.region_size
          /\ chunks_per_region' = o.engine.chunks_per_region
          /\ regions' = o.engine.regions
          /\ region_mem' = o.engine.region_mem
          /\ out_handle' = o.engine.out_handle
          /\ handles' = IF o.status = "SUCCESS"
                        THEN Append(handles, [code_address |-> o.engine.out_handle,
                                              freed |-> 0])
                        ELSE handles
          /\ last' = [op |-> "create", entry |-> entry, status |-> o.status,
                       call |-> c, diag |-> o.diag]

ZyrexTrampolineCreateEx(c, answers) ==
    CallReturns(c, "ZyrexTrampolineCreateEx", CreateExOutcomes(Current, c, answers))

\* the call is recorded with the flags that are passed on
ZyrexTrampolineCreate(target, callback, min_bytes_to_reloc, out, answers) ==
    CallReturns(Call(target, callback, min_bytes_to_reloc, ZyrexTrampolineCreateFlags,
                     out),
                "ZyrexTrampolineCreate",
                ZyrexTrampolineCreateOutcomes(Current, target, callback,
                                              min_bytes_to_reloc, out, answers))

(* ----------------------------------------------------------------------- *)
(* ZyrexTrampolineFree                                                     *)
(* ----------------------------------------------------------------------- *)

RECURSIVE SumFreed(_, _)
SumFreed(hs, n) == IF n = 0 THEN 0 ELSE hs[n].freed + SumFreed(hs, n - 1)

\* the free calls made on handles so far
FreeCalls(hs) == SumFreed(hs, Len(hs))

\* h: 0 for a null pointer, else the number of the handle the caller frees
ZyrexTrampolineFree(h) ==
    /\ Running
    /\ h \in 0 .. Len(handles)
    /\ h # 0 => FreeCalls(handles) < MaxFrees
    /\ LET status == IF h = 0 THEN "INVALID_ARGUMENT"
                     ELSE IF ~is_initialized THEN "INVALID_OPERATION"
                     ELSE "SUCCESS"
           destroy == status = "SUCCESS" /\ Len(regions) = 0
       IN  /\ is_initialized' = IF destroy THEN FALSE ELSE is_initialized
           /\ regions' = regions
           /\ handles' = IF h = 0 THEN handles
                         ELSE [handles EXCEPT ![h].freed = @ + 1]
           /\ last' = [op |-> "free", entry |-> "ZyrexTrampolineFree",
                       status |-> status, call |-> Call(h, 0, 0, {}, FALSE),
                       diag |-> NoDiag]
    /\ UNCHANGED << mem, region_size, chunks_per_region, region_mem, out_handle >>

\* the calls of ZyrexTrampolineCreate of a run: a function whose JRCXZ is
\* relocated, and one without a relative instruction
CreateArguments ==
    { Call(6, CallbackAddress, ZYREX_SIZEOF_RELATIVE_JUMP + 1, {}, TRUE),
      Call(1, CallbackAddress, ZYREX_SIZEOF_RELATIVE_JUMP, {}, TRUE) }

\* runs on an operating system that refuses nothing
Next ==
    \/ \E c \in CreateCalls : ZyrexTrampolineCreateEx(c, Cooperative)
    \/ \E c \in CreateArguments :
          ZyrexTrampolineCreate(c.target, c.callback, c.min_bytes_to_reloc, c.out,
                                Cooperative)
    \/ \E h \in 0 .. MaxCreates : ZyrexTrampolineFree(h)

Spec == Init /\ [][Next]_vars

\* short runs: the calls of ZyrexTrampolineCreateEx and ZyrexTrampolineFree,
\* with no create once ShortCreates handles were returned and at most
\* ShortFrees frees of handles
ShortNext ==
    \/ /\ Len(handles) < ShortCreates
       /\ \E c \in CreateCalls : ZyrexTrampolineCreateEx(c, Cooperative)
    \/ \E h \in 0 .. ShortCreates :
          /\ h # 0 => FreeCalls(handles) < ShortFrees
          /\ ZyrexTrampolineFree(h)

ShortSpec == Init /\ [][ShortNext]_vars

\* a callback out of the reach of a relative jump from every hooked function
FarCallbackAddress == CallbackAddress + RANGEOF_RELATIVE_JUMP + 1

\* the calls of ZyrexTrampolineCreateEx of a run through both entry points:
\* one function with a near and with a far callback, one at the start of its
\* granule, and one whose JRCXZ the builder refuses
ApiCalls ==
    { Call(1, CallbackAddress, ZYREX_SIZEOF_RELATIVE_JUMP, AllFlags, TRUE),
      Call(1, FarCallbackAddress, ZYREX_SIZEOF_RELATIVE_JUMP, AllFlags, TRUE),
      Call(5, CallbackAddress, ZYREX_SIZEOF_RELATIVE_JUMP, AllFlags, TRUE),
      Call(6, CallbackAddress, ZYREX_SIZEOF_RELATIVE_JUMP + 1, {}, TRUE) }

\* runs through both entry points, up to ApiCreates handles
ApiNext ==
    \/ /\ Len(handles) < ApiCreates
       /\ \E c \in ApiCalls : ZyrexTrampolineCreateEx(c, Cooperative)
    \/ /\ Len(handles) < ApiCreates
       /\ \E c \in CreateArguments :
             ZyrexTrampolineCreate(c.target, c.callback, c.min_bytes_to_reloc, c.out,
                                   Cooperative)

ApiSpec == Init /\ [][ApiNext]_vars

\* the calls of a run that fills the pool: a function that is hooked again
\* and again, and one whose JRCXZ the builder refuses
PoolCalls ==
    { Call(1, CallbackAddress, ZYREX_SIZEOF_RELATIVE_JUMP, AllFlags, TRUE),
      Call(6, CallbackAddress, ZYREX_SIZEOF_RELATIVE_JUMP + 1, {}, TRUE) }

\* runs that fill the pool: up to PoolCreates handles and PoolFrees frees of
\* handles
PoolNext ==
    \/ /\ Len(handles) < PoolCreates
       /\ \E c \in PoolCalls : ZyrexTrampolineCreateEx(c, Cooperative)
    \/ \E h \in 0 .. PoolCreates :
          /\ h # 0 => FreeCalls(handles) < PoolFrees
          /\ ZyrexTrampolineFree(h)

PoolSpec == Init /\ [][PoolNext]_vars

\* the calls of a run that stores map items behind chunks: a function with
\* more instructions than the map of a chunk holds, and a plain one
MapCalls ==
    { Call(7, CallbackAddress, ZYREX_SIZEOF_RELATIVE_JUMP + 4, AllFlags, TRUE),
      Call(1, CallbackAddress, ZYREX_SIZEOF_RELATIVE_JUMP, AllFlags, TRUE) }

\* runs that store map items behind chunks, up to MapCreates handles and
\* MapFrees frees of handles
MapNext ==
    \/ /\ Len(handles) < MapCreates
       /\ \E c \in MapCalls : ZyrexTrampolineCreateEx(c, Cooperative)
    \/ \E h \in 1 .. MapCreates :
          /\ FreeCalls(handles) < MapFrees
          /\ ZyrexTrampolineFree(h)

MapSpec == Init /\ [][MapNext]_vars

\* runs on an operating system that may refuse to change pages
RefusingNext ==
    /\ Len(handles) < RefusingCreates
    /\ \E c \in ApiCalls : ZyrexTrampolineCreateEx(c, OsAnswers)

RefusingSpec == Init /\ [][RefusingNext]_vars

(* ----------------------------------------------------------------------- *)
(* Properties                                                              *)
(* ----------------------------------------------------------------------- *)

\* the region and the chunk index a code address lies in
RegionOfAddress(a) == ZYAN_ALIGN_DOWN(a, AllocationGranularity)

ChunkIndexOfAddress(a) == (a - RegionOfAddress(a)) \div SizeofChunk

\* the greatest distance from address a to a byte of the chunk at chunk_base
FarthestByte(chunk_base, a) ==
    LET d_first == ZYAN_ABS(chunk_base - a)
        d_last == ZYAN_ABS(chunk_base + SizeofChunk - 1 - a)
    IN  IF d_first > d_last THEN d_first ELSE d_last

\* the last call was a create that returned
CreateReturned == last.op = "create" /\ Running

\* C1: as long as no handle has been freed, the code addresses of the handles
\* that create returned are pairwise distinct.
C1_HandlesDistinct ==
    (Running /\ FreeCalls(handles) = 0) =>
        \A i, j \in 1 .. Len(handles) :
            i # j => handles[i].code_address # handles[j].code_address

\* C2: after a create that returned success, every byte of the chunk whose
\* code address was returned lies within RANGEOF_RELATIVE_JUMP of lo and of hi
\* of the window the call computed.
C2_ChunkInReach ==
    (CreateReturned /\ last.status = "SUCCESS") =>
        LET chunk_base == out_handle - OffsetofTrampoline IN
        /\ FarthestByte(chunk_base, last.diag.lo) <= RANGEOF_RELATIVE_JUMP
        /\ FarthestByte(chunk_base, last.diag.hi) <= RANGEOF_RELATIVE_JUMP

\* C3: a create that returns a failure status leaves the latch, the region
\* list, every region's memory (counters, chunk flags and contents), the
\* pages and the caller's handle as they were.
C3_FailedCreateChangesNothing ==
    [][ (last'.op = "create" /\ last'.status \notin {"SUCCESS", "CRASH", "HANG"})
            => UNCHANGED engine ]_vars

\* C4: every region of the pool has number_of_unused_chunks =
\* chunks_per_region - 1 - (the number of its chunks with is_used set).
C4_CounterMatchesFlags ==
    Running =>
        \A k \in 1 .. Len(regions) :
            LET r == region_mem[regions[k]] IN
            r.number_of_unused_chunks =
                chunks_per_region - 1
                    - Cardinality({ i \in DOMAIN r.chunks : r.chunks[i].is_used })

\* C5: between calls every page of every region of the pool is
\* PAGE_EXECUTE_READ.
C5_RegionsExecuteRead ==
    Running =>
        \A k \in 1 .. Len(regions) :
            \A p \in PagesOfRange(regions[k], AllocationGranularity) : mem[p] = "rx"

\* C6: a free of a handle that has not been freed before marks the handle's
\* chunk unused and raises its region's counter by one (or releases the
\* region, when that was its last used chunk).
C6_FreeReleasesChunk ==
    [][ (/\ last'.op = "free"
         /\ last'.call.target # 0
         /\ handles[last'.call.target].freed = 0
         /\ handles'[last'.call.target].freed = 1)
        => LET a == handles[last'.call.target].code_address
               r == RegionOfAddress(a)
               i == ChunkIndexOfAddress(a)
           IN  \/ r \notin DOMAIN region_mem'
               \/ /\ ~region_mem'[r].chunks[i].is_used
                  /\ region_mem'[r].number_of_unused_chunks =
                         region_mem[r].number_of_unused_chunks + 1 ]_vars

\* C7: right after a free that leaves no handle unfreed, no region is
\* allocated, the region list is empty and is_initialized is false.
C7_AllFreedPoolGone ==
    (/\ Running
     /\ last.op = "free"
     /\ Len(handles) > 0
     /\ \A h \in 1 .. Len(handles) : handles[h].freed >= 1)
    => /\ regions = << >>
       /\ DOMAIN region_mem = {}
       /\ ~is_initialized

\* C8: a second free of the same handle fails with InvalidArgument and
\* changes no engine state.
C8_SecondFreeRejected ==
    [][ (/\ last'.op = "free"
         /\ last'.call.target # 0
         /\ handles[last'.call.target].freed >= 1
         /\ handles'[last'.call.target].freed = handles[last'.call.target].freed + 1)
        => (last'.status = "INVALID_ARGUMENT" /\ UNCHANGED engine) ]_vars

\* the call has a null target, callback or out handle, or a size below 1
HasInvalidArgument(c) ==
    \/ TargetAddress(c.target) = NULLVAL
    \/ c.callback = NULLVAL
    \/ c.out = FALSE
    \/ c.min_bytes_to_reloc < 1

\* C9: a create with a null target, callback or out handle or with
\* min_bytes_to_reloc < 1 returns InvalidArgument and leaves is_initialized and
\* the region list (and everything else the engine owns) untouched.
C9_InvalidArgumentFirst ==
    [][ (last'.op = "create" /\ HasInvalidArgument(last'.call))
            => (last'.status = "INVALID_ARGUMENT" /\ UNCHANGED engine) ]_vars

\* a create with min_bytes_to_reloc = 0 and otherwise valid arguments was
\* rejected after an earlier create had initialised the pool
C9_Witness ==
    /\ last.op = "create"
    /\ last.status = "INVALID_ARGUMENT"
    /\ last.call.min_bytes_to_reloc = 0
    /\ TargetAddress(last.call.target) # NULLVAL
    /\ last.call.callback # NULLVAL
    /\ last.call.out
    /\ is_initialized

\* C10: the readable size create computes for its target is the number of
\* contiguous committed readable bytes at the target, capped at
\* ZYREX_TRAMPOLINE_MAX_CODE_SIZE (never more than is readable), and create
\* fails InvalidOperation when that number is below min_bytes_to_reloc.
C10_ReadableSizeExact ==
    (last.op = "create" /\ ~HasInvalidArgument(last.call)) =>
        /\ last.diag.source_size = last.diag.readable
        /\ (last.diag.readable < last.call.min_bytes_to_reloc
                => last.status = "INVALID_OPERATION")

\* the last call was a create that returned success
CreateSucceeded == last.op = "create" /\ last.status = "SUCCESS"

\* the chunk the last create built
LastChunk == region_mem[last.diag.chunk_region].chunks[last.diag.chunk]

\* the last create computed its window (hi is then at least the target)
WindowComputed == last.op = "create" /\ last.diag.hi # 0

\* the absolute targets of the relative instructions of the code at address,
\* from instruction idx at byte offset on, up to the first instruction
\* boundary at or past min_bytes
RECURSIVE RelocatedTargets(_, _, _, _, _)
RelocatedTargets(code, address, idx, offset, min_bytes) ==
    IF offset >= min_bytes THEN {}
    ELSE LET ins == InsAt(code, idx)
             here == IF ins.is_relative
                     THEN { WrapU(address + offset + ins.length + ins.value) }
                     ELSE {}
         IN  here \cup RelocatedTargets(code, address, idx + 1, offset + ins.length,
                                        min_bytes)

\* the addresses the window of the last create has to contain
WindowAddresses ==
    { TargetAddress(last.call.target) }
        \cup RelocatedTargets(TargetCode(last.call.target),
                              TargetAddress(last.call.target), 1, 0,
                              last.call.min_bytes_to_reloc)

\* C11: the window [lo, hi] create computes is the smallest interval that
\* contains the target and the absolute targets of the relative instructions
\* of the relocated prologue.
C11_WindowIsSmallest ==
    WindowComputed =>
        /\ last.diag.lo \in WindowAddresses
        /\ last.diag.hi \in WindowAddresses
        /\ \A a \in WindowAddresses : last.diag.lo <= a /\ a <= last.diag.hi

\* C12: a create whose window spans more than RANGEOF_RELATIVE_JUMP fails
\* with OutOfRange and allocates no region.
C12_WideWindowOutOfRange ==
    (WindowComputed /\ WrapU(last.diag.hi - last.diag.lo) > RANGEOF_RELATIVE_JUMP)
        => (last.status = "OUT_OF_RANGE" /\ ~last.diag.allocated)

\* the flag that gates the rewriting of an instruction with mnemonic mn
GateOf(mn) ==
    IF mn = "CALL" THEN { ZYREX_TRAMPOLINE_FLAG_REWRITE_CALL }
    ELSE IF mn \in {"JCXZ", "JECXZ", "JRCXZ"} THEN { ZYREX_TRAMPOLINE_FLAG_REWRITE_JCXZ }
    ELSE IF mn \in {"LOOP", "LOOPE", "LOOPNE"} THEN { ZYREX_TRAMPOLINE_FLAG_REWRITE_LOOP }
    ELSE {}

\* the relocated prologue holds a relative instruction whose flag is cleared
RECURSIVE PrologueRefused(_, _, _, _, _)
PrologueRefused(code, idx, offset, min_bytes, flags) ==
    IF offset >= min_bytes THEN FALSE
    ELSE LET ins == InsAt(code, idx)
         IN  \/ ins.is_relative /\ GateOf(ins.mnemonic) \ flags # {}
             \/ PrologueRefused(code, idx + 1, offset + ins.length, min_bytes, flags)

\* C13: a create with valid arguments and enough readable bytes fails with
\* the unsupported-instruction status (ZYAN_STATUS_FAILED in the code) if and
\* only if its relocated prologue holds a relative CALL, JCXZ or LOOP whose
\* flag is cleared.
C13_RefusedExactlyWhenFlagCleared ==
    (/\ last.op = "create"
     /\ Running
     /\ ~HasInvalidArgument(last.call)
     /\ last.diag.source_size >= last.call.min_bytes_to_reloc)
    => (last.status = "FAILED"
            <=> PrologueRefused(TargetCode(last.call.target), 1, 0,
                                last.call.min_bytes_to_reloc, last.call.flags))

\* the map items that lie inside the chunk
ItemsInChunk == 0 .. (FirstItemBehindChunk - 1)

\* C14: after a successful create the chunk's map has entry 0 = (0, 0) and
\* its entries 0 .. count-1 strictly increase in both offsets.
C14_MapStrictlyIncreasing ==
    CreateSucceeded =>
        /\ MapItem(LastChunk, 0) = [offset_original |-> 0, offset_trampoline |-> 0]
        /\ \A i, j \in ItemsInChunk :
              (i < j /\ j < MapCount(LastChunk)) =>
                  /\ MapItem(LastChunk, i).offset_original
                        < MapItem(LastChunk, j).offset_original
                  /\ MapItem(LastChunk, i).offset_trampoline
                        < MapItem(LastChunk, j).offset_trampoline

\* the number of instructions from idx at offset on up to the first
\* instruction boundary at or past min_bytes, and that boundary
RECURSIVE InstructionsUpTo(_, _, _, _)
InstructionsUpTo(code, idx, offset, min_bytes) ==
    IF offset >= min_bytes THEN 0
    ELSE 1 + InstructionsUpTo(code, idx + 1, offset + InsAt(code, idx).length, min_bytes)

RECURSIVE BoundaryAtLeast(_, _, _, _)
BoundaryAtLeast(code, idx, offset, min_bytes) ==
    IF offset >= min_bytes THEN offset
    ELSE BoundaryAtLeast(code, idx + 1, offset + InsAt(code, idx).length, min_bytes)

\* C15: after a successful create, map.count read from the chunk equals the
\* number of instructions relocated.
C15_CountIsInstructionCount ==
    CreateSucceeded =>
        MapCount(LastChunk)
            = InstructionsUpTo(TargetCode(last.call.target), 1, 0,
                               last.call.min_bytes_to_reloc)

\* C16: after a successful create, backjump_address = target + bytes_read,
\* bytes_read being the first instruction boundary of the target at or past
\* min_bytes_to_reloc.
C16_BackjumpAtBoundary ==
    CreateSucceeded =>
        /\ last.diag.bytes_read
              = BoundaryAtLeast(TargetCode(last.call.target), 1, 0,
                                last.call.min_bytes_to_reloc)
        /\ LastChunk.backjump_address
              = TargetAddress(last.call.target) + last.diag.bytes_read

\* a create asked for 5 bytes of a function whose instruction boundaries are
\* 1, 4 and 8 and returned a chunk that jumps back to byte 8
C16_Witness ==
    /\ CreateSucceeded
    /\ last.call.min_bytes_to_reloc = ZYREX_SIZEOF_RELATIVE_JUMP
    /\ TargetCode(last.call.target) = CodePlain
    /\ last.diag.bytes_read = 8
    /\ LastChunk.backjump_address = TargetAddress(last.call.target) + 8

\* C17: the builder of an accepted create records at most
\* ZYREX_SIZEOF_RELATIVE_JUMP + 2 map items and writes at most
\* ZYREX_TRAMPOLINE_MAX_CODE_SIZE prologue bytes.
C17_BuilderWithinCapacity ==
    (last.op = "create" /\ last.diag.instructions_read # 0 - 1) =>
        /\ last.diag.instructions_read <= ZYREX_SIZEOF_RELATIVE_JUMP + 2
        /\ last.diag.bytes_written <= ZYREX_TRAMPOLINE_MAX_CODE_SIZE

\* the absolute target of the instruction the bytes raw[off .. off+length)
\* of a chunk encode when run at runtime_address: they are the bytes of ins
\* copied from src_address, with the operand of ins unchanged, or no
\* relative instruction at all (-1)
EmittedTarget(raw, off, ins, src_address, runtime_address) ==
    IF \A k \in 0 .. (ins.length - 1) :
            raw[off + k] = [t |-> "src", v |-> src_address + k]
    THEN WrapU(runtime_address + ins.length + ins.value)
    ELSE 0 - 1

\* every ungated relative instruction of the code, from instruction idx at
\* offset on, has its absolute target kept by the bytes emitted for it
RECURSIVE TargetsKept(_, _, _, _, _, _, _)
TargetsKept(raw, code, address, code_address, idx, offset, min_bytes) ==
    IF offset >= min_bytes THEN TRUE
    ELSE LET ins == InsAt(code, idx)
         IN  /\ (ins.is_relative /\ GateOf(ins.mnemonic) = {}) =>
                    EmittedTarget(raw, offset, ins, address + offset,
                                  code_address + offset)
                        = WrapU(address + offset + ins.length + ins.value)
             /\ TargetsKept(raw, code, address, code_address, idx + 1,
                            offset + ins.length, min_bytes)

\* C18: after a successful create, the trampoline bytes of every relocated
\* relative instruction that is not flag-gated encode an operand with the
\* absolute target the instruction has at its original address.
C18_RelativeTargetsKept ==
    CreateSucceeded =>
        TargetsKept(LastChunk.raw, TargetCode(last.call.target),
                    TargetAddress(last.call.target), out_handle, 1, 0,
                    last.call.min_bytes_to_reloc)

\* C19: after a successful create, original_code holds the first bytes_read
\* bytes of the target and original_code_size = bytes_read.
C19_OriginalCodeSaved ==
    CreateSucceeded =>
        /\ LastChunk.original_code_size = last.diag.bytes_read
        /\ \A k \in 1 .. last.diag.bytes_read :
              LastChunk.original_code[k]
                  = [t |-> "src", v |-> TargetAddress(last.call.target) + k - 1]

\* C20: when a create has just used the last unused chunk of its region
\* (the counter is 0), the same create again is not served from that region:
\* it returns a chunk of a region it allocates, or fails with OutOfRange.
C20_ExhaustedRegionNotServed ==
    [][ (/\ CreateSucceeded
         /\ last.diag.region \in DOMAIN region_mem
         /\ region_mem[last.diag.region].number_of_unused_chunks = 0
         /\ last'.op = "create"
         /\ last'.call = last.call)
        => \/ last'.status = "OUT_OF_RANGE"
           \/ /\ last'.status = "SUCCESS"
              /\ last'.diag.allocated
              /\ last'.diag.region # last.diag.region
              /\ RegionOfAddress(out_handle') = last'.diag.region ]_vars

\* what a caller sees of the ways a call can end: the status and the engine
Visible(outcomes) == { [status |-> o.status, engine |-> o.engine] : o \in outcomes }

\* the inputs of ZyrexTrampolineCreate that are compared: the calls of a run,
\* a function that starts with a JRCXZ, and a size the entry check rejects
CreateInputs ==
    CreateArguments
        \cup { Call(2, CallbackAddress, ZYREX_SIZEOF_RELATIVE_JUMP, {}, TRUE),
               Call(1, FarCallbackAddress, 0, {}, TRUE) }

\* C21: from every pool state and for every input, ZyrexTrampolineCreate ends
\* in the same statuses and engine states as ZyrexTrampolineCreateEx with the
\* flags REWRITE_CALL | REWRITE_JCXZ | REWRITE_LOOP.
C21_CreateIsCreateExWithAllFlags ==
    Running =>
        \A c \in CreateInputs :
            Visible(ZyrexTrampolineCreateOutcomes(
                        Current, c.target, c.callback, c.min_bytes_to_reloc, c.out,
                        OsAnswers))
                = Visible(CreateExOutcomes(Current, [c EXCEPT !.flags = AllFlags],
                                           OsAnswers))

\* ZyrexTrampolineCreate returned a trampoline for a function whose JRCXZ
\* was relocated
C21_Witness ==
    /\ last.entry = "ZyrexTrampolineCreate"
    /\ last.status = "SUCCESS"
    /\ TargetCode(last.call.target) = CodeLateJcxz
    /\ last.diag.bytes_read > ZYREX_SIZEOF_RELATIVE_JUMP

\* the status of each way a create can end and the chunk it chose
Placed(outcomes) ==
    { [status |-> o.status, region |-> o.diag.chunk_region, chunk |-> o.diag.chunk] :
          o \in outcomes }

\* C22: the status of a create and the chunk it chooses do not depend on the
\* (non-null) callback address: from every pool state, a call with a callback
\* out of the reach of a relative jump ends with the same statuses and chunks
\* as the same call with a callback next to the hooked function, so a far
\* callback is never the cause of OUT_OF_RANGE.
C22_CallbackDoesNotPlace ==
    Running =>
        \A c \in CreateInputs \cup ApiCalls :
            Placed(CreateExOutcomes(Current, [c EXCEPT !.callback = FarCallbackAddress],
                                    OsAnswers))
                = Placed(CreateExOutcomes(Current, [c EXCEPT !.callback = CallbackAddress],
                                          OsAnswers))

\* a create with a callback out of reach of the hooked function has succeeded
\* with a chunk next to the function
C22_Witness ==
    /\ last.op = "create"
    /\ last.status = "SUCCESS"
    /\ last.call.callback - TargetAddress(last.call.target) > RANGEOF_RELATIVE_JUMP
    /\ last.diag.chunk_region # NULLVAL
    /\ last.diag.chunk >= 1

\* C23: a create during which the OS refuses a protect or release call
\* returns BAD_SYSTEMCALL, also when the refused call is the re-protect at the
\* end of the create or the release of a fresh region.
C23_RefusalReported ==
    (last.op = "create" /\ last.diag.refused # "none") => last.status = "BAD_SYSTEMCALL"

StrictlyAscending(vec) == \A i \in 1 .. Len(vec) - 1 : vec[i] < vec[i + 1]

\* C25: after every create and free the region list is sorted strictly
\* ascending by base address, so it holds no region twice, and a step that
\* changes the list inserts one region that was not in it.
C25_RegionsSortedAndInsertedOnce ==
    [][ /\ StrictlyAscending(regions')
        /\ regions' # regions =>
              /\ Len(regions') = Len(regions) + 1
              /\ \E k \in 1 .. Len(regions') :
                    /\ \A j \in 1 .. Len(regions) : regions[j] # regions'[k]
                    /\ \A j \in 1 .. Len(regions) :
                          regions[j] = regions'[IF j < k THEN j ELSE j + 1] ]_vars

\* a create has inserted a fresh region in front of a region of the list
C25_Witness ==
    /\ Len(regions) >= 2
    /\ last.op = "create"
    /\ last.diag.is_new_region
    /\ last.diag.region = regions[1]

\* C26: in every reachable state the counter of every region is between 0
\* and chunks_per_region - 1: no create decrements a counter that is 0, which
\* would wrap the unsigned counter to its largest value.
C26_CounterInBounds ==
    \A r \in DOMAIN region_mem :
        /\ region_mem[r].number_of_unused_chunks >= 0
        /\ region_mem[r].number_of_unused_chunks <= chunks_per_region - 1

\* a create has returned while the counter of a region of the list was 0
C26_Witness ==
    /\ last.op = "create"
    /\ Len(regions) >= 2
    /\ last.diag.allocated
    /\ \E k \in 1 .. Len(regions) : region_mem[regions[k]].number_of_unused_chunks = 0

\* some chunk of the region lies, with every byte, within
\* RANGEOF_RELATIVE_JUMP of address_lo and of address_hi
RegionInReach(region, address_lo, address_hi) ==
    \E i \in 1 .. (chunks_per_region - 1) :
        /\ FarthestByte(ChunkBase(region, i), address_lo) <= RANGEOF_RELATIVE_JUMP
        /\ FarthestByte(ChunkBase(region, i), address_hi) <= RANGEOF_RELATIVE_JUMP

\* C27: ZyrexTrampolineRegionAllocate always returns: the create that calls
\* it never loops for ever, and a region it returns is within reach of lo and
\* hi (with no free block within reach it returns OUT_OF_RANGE instead).
C27_AllocateReturnsInReach ==
    last.op = "create" =>
        /\ last.status # "HANG"
        /\ last.diag.allocated =>
              RegionInReach(last.diag.region, last.diag.lo, last.diag.hi)

\* the windows a region is searched for: lo at the addresses from which the
\* first or the last byte of one of its chunks is RANGEOF_RELATIVE_JUMP away,
\* and next to them; hi at lo or a chunk further
ProbeWindows(region) ==
    { w \in { << base + off + k, base + off + k + up >> :
                 base \in { ChunkBase(region, i) : i \in 1 .. (chunks_per_region - 1) },
                 off \in { SizeofChunk - 1 - RANGEOF_RELATIVE_JUMP, RANGEOF_RELATIVE_JUMP },
                 k \in (0 - 1) .. 1,
                 up \in { 0, SizeofChunk } } :
          w[1] >= 0 /\ w[2] < AddressSpaceSize }

\* every byte of chunk i is within RANGEOF_RELATIVE_JUMP of address a
ChunkWithinReach(region, i, a) ==
    FarthestByte(ChunkBase(region, i), a) <= RANGEOF_RELATIVE_JUMP

\* every byte of chunk i, and for an address below the chunk also the byte
\* behind its last, is within RANGEOF_RELATIVE_JUMP of address a
ChunkWithinTestedReach(region, i, a) ==
    FarthestByte(ChunkBase(region, i), a) + (IF a < ChunkBase(region, i) THEN 1 ELSE 0)
        <= RANGEOF_RELATIVE_JUMP

LowestIndex(S) == IF S = {} THEN 0 ELSE CHOOSE i \in S : \A j \in S : i <= j

\* what the search of the region at regions[k] for the window w returns
FoundInRegion(k, w) ==
    ZyrexTrampolineRegionFindChunkInRegion(
        region_mem[regions[k]], chunks_per_region, regions[k], w[1], w[2])

\* C28 as stated: the search of a region returns no chunk when its counter is
\* 0, and otherwise the lowest-index chunk i >= 1 of which every byte is
\* within RANGEOF_RELATIVE_JUMP of lo and of hi.
C28_LowestChunkInReach ==
    \A k \in 1 .. Len(regions) : \A w \in ProbeWindows(regions[k]) :
        FoundInRegion(k, w) =
            IF region_mem[regions[k]].number_of_unused_chunks = 0 THEN 0
            ELSE LowestIndex({ i \in 1 .. (chunks_per_region - 1) :
                                  /\ ChunkWithinReach(regions[k], i, w[1])
                                  /\ ChunkWithinReach(regions[k], i, w[2]) })

\* C28, amended: the search of a region returns no chunk when its counter is
\* 0, and otherwise the lowest-index chunk i >= 1 that passes the distance
\* test for lo and hi: every byte of the chunk within RANGEOF_RELATIVE_JUMP
\* of a bound at or above the chunk base, and within RANGEOF_RELATIVE_JUMP - 1
\* of a bound below it. A chunk with a byte farther than
\* RANGEOF_RELATIVE_JUMP from lo or hi is never returned.
C28_LowestChunkInTestedReach ==
    \A k \in 1 .. Len(regions) : \A w \in ProbeWindows(regions[k]) :
        /\ FoundInRegion(k, w) =
              IF region_mem[regions[k]].number_of_unused_chunks = 0 THEN 0
              ELSE LowestIndex({ i \in 1 .. (chunks_per_region - 1) :
                                    /\ ChunkWithinTestedReach(regions[k], i, w[1])
                                    /\ ChunkWithinTestedReach(regions[k], i, w[2]) })
        /\ FoundInRegion(k, w) # 0 =>
              /\ ChunkWithinReach(regions[k], FoundInRegion(k, w), w[1])
              /\ ChunkWithinReach(regions[k], FoundInRegion(k, w), w[2])

\* a create was served by the search of a region of the list that still has
\* unused chunks, and the region has a chunk whose last byte is exactly
\* RANGEOF_RELATIVE_JUMP above lo: the search for that window passes it over
C28_Witness ==
    /\ last.op = "create"
    /\ last.status = "SUCCESS"
    /\ \E k \in 1 .. Len(regions) : \E w \in ProbeWindows(regions[k]) :
          /\ last.diag.chunk_region = regions[k]
          /\ region_mem[regions[k]].number_of_unused_chunks > 0
          /\ \E i \in 1 .. (chunks_per_region - 1) :
                /\ ChunkBase(regions[k], i) + SizeofChunk - 1 - w[1] = RANGEOF_RELATIVE_JUMP
                /\ ChunkWithinReach(regions[k], i, w[2])
                /\ FoundInRegion(k, w) # i

\* the windows the region list is searched for: those of every region, and
\* the base and the end of every region
SearchWindows ==
    UNION { ProbeWindows(regions[k]) : k \in 1 .. Len(regions) }
        \cup { << regions[k] + off, regions[k] + off >> :
                  k \in 1 .. Len(regions), off \in { 0, region_size - 1 } }

\* what the search of the region list for the window w returns
FoundInList(w) ==
    ZyrexTrampolineRegionFindChunk(regions, region_mem, chunks_per_region, w[1], w[2])

\* C29: the search of the region list ends for every list; it returns FALSE
\* exactly when the search of every region of the list fails, and when it
\* returns TRUE the region it returns is a region of the list and the chunk
\* is the chunk the search of that region returns.
C29_FindChunkExaminesEveryRegion ==
    \A w \in SearchWindows :
        /\ FoundInList(w).status \in {"TRUE", "FALSE"}
        /\ FoundInList(w).status = "FALSE"
              <=> \A k \in 1 .. Len(regions) : FoundInRegion(k, w) = 0
        /\ FoundInList(w).status = "TRUE" =>
              \E k \in 1 .. Len(regions) :
                  /\ FoundInList(w).region = regions[k]
                  /\ FoundInList(w).chunk = FoundInRegion(k, w)
                  /\ FoundInList(w).chunk \in 1 .. (chunks_per_region - 1)

\* a create has searched a list of regions, and the list now has a window
\* whose search fails in one region and finds a chunk in another, and a
\* window whose search fails in every region
C29_Witness ==
    /\ last.op = "create"
    /\ last.diag.allocated
    /\ Len(regions) >= 2
    /\ \E w \in SearchWindows :
          /\ FoundInList(w).status = "TRUE"
          /\ \E k \in 1 .. Len(regions) : FoundInRegion(k, w) = 0
    /\ \E w \in SearchWindows : FoundInList(w).status = "FALSE"

\* C30: after a successful create the bytes of the back-jump are in place
\* behind the relocated code, and no byte from the end of the code buffer on
\* (map.count, map.items, padding) holds the INT 3 opcode of the fill.
C30_FillStaysInBuffer ==
    CreateSucceeded =>
        /\ \A k \in 1 .. ZYREX_SIZEOF_ABSOLUTE_JUMP :
              LastChunk.raw[last.diag.bytes_written + k - 1] = AbsoluteJumpBytes[k]
        /\ \A i \in OffsetofMapCount .. (RawSize - 1) : LastChunk.raw[i] # INT3

\* the step is a create whose trampoline builder returned a failure status
BuilderFailed ==
    /\ last'.op = "create"
    /\ last'.status \notin {"SUCCESS", "CRASH", "HANG"}
    /\ last'.diag.chunk # 0

\* C31: when the trampoline builder fails, a region the call allocated is
\* released and not in the region list, a region that existed before is
\* PAGE_EXECUTE_READ again, and no counter of a region is decremented.
C31_BuilderFailureUndone ==
    [][ BuilderFailed =>
            /\ last'.diag.allocated =>
                  /\ \A p \in PagesOfRange(last'.diag.region, AllocationGranularity) :
                        mem'[p] = "free"
                  /\ \A k \in 1 .. Len(regions') : regions'[k] # last'.diag.region
            /\ ~last'.diag.allocated =>
                  \A p \in PagesOfRange(last'.diag.region, AllocationGranularity) :
                      mem'[p] = "rx"
            /\ \A r \in DOMAIN region_mem :
                  /\ r \in DOMAIN region_mem'
                  /\ region_mem'[r].number_of_unused_chunks
                        = region_mem[r].number_of_unused_chunks ]_vars

Memberships(region) == Cardinality({ k \in 1 .. Len(regions) : regions[k] = region })

\* C33: the region that holds the code address of a handle that has not been
\* freed is in the region list exactly once, from the create that returned
\* the handle on.
C33_LiveHandleRegionListed ==
    \A h \in 1 .. Len(handles) :
        handles[h].freed = 0 =>
            Memberships(RegionOfAddress(handles[h].code_address)) = 1

\* the last create ran the allocation loop
AllocateRan == last.op = "create" /\ last.diag.probes # {}

\* C34: every address the allocation loop tests for reach is aligned to
\* region_size, and so is the base of every region.
C34_ProbesAligned ==
    /\ AllocateRan =>
           \A a \in last.diag.probes : ZYAN_IS_ALIGNED_TO(a, region_size)
    /\ \A r \in DOMAIN region_mem : ZYAN_IS_ALIGNED_TO(r, AllocationGranularity)

\* the bytes the last create scanned for its window hold no relative
\* instruction
NoRelativeScanned ==
    RelocatedTargets(TargetCode(last.call.target), TargetAddress(last.call.target),
                     1, 0, ZYREX_SIZEOF_RELATIVE_JUMP) = {}

\* C35: when the scanned bytes of the target hold no relative instruction,
\* the window create goes on with is exactly [target, target].
C35_NoRelativeWindowIsTarget ==
    (WindowComputed /\ NoRelativeScanned) =>
        /\ last.diag.lo = TargetAddress(last.call.target)
        /\ last.diag.hi = TargetAddress(last.call.target)

\* a create of a target whose relative instruction starts behind the scanned
\* bytes got the window [target, target] and returned a handle
C35_Witness ==
    /\ CreateSucceeded
    /\ NoRelativeScanned
    /\ TargetCode(last.call.target) = CodeLateJcxz
    /\ last.diag.lo = TargetAddress(last.call.target)
    /\ last.diag.hi = last.diag.lo

\* the step is a create that returned to its caller
CreateStep == last'.op = "create" /\ last'.status \notin {"CRASH", "HANG"}

\* the region at r is, after the step, what it was before it, but for chunk i
\* and, when counter, its number_of_unused_chunks
RegionKeptBut(r, i, counter) ==
    /\ region_mem'[r].signature = region_mem[r].signature
    /\ counter \/ region_mem'[r].number_of_unused_chunks
                       = region_mem[r].number_of_unused_chunks
    /\ \A j \in DOMAIN region_mem[r].chunks :
           j # i => region_mem'[r].chunks[j] = region_mem[r].chunks[j]

\* C36: a create changes nothing of the regions that existed before it but
\* the chunk it selected and the number_of_unused_chunks of that chunk's
\* region.
C36_CreateWritesItsChunkOnly ==
    [][ CreateStep =>
          \A r \in DOMAIN region_mem :
              r \in DOMAIN region_mem' =>
                  IF r = last'.diag.chunk_region
                  THEN RegionKeptBut(r, last'.diag.chunk, TRUE)
                  ELSE RegionKeptBut(r, 0, FALSE) ]_vars

====
